---- MODULE Spec2Model ----
(***************************************************************************)
(* chaos-rs: the process-wide failpoint registry (FAILPOINTS), the         *)
(* injection primitives (maybe_fail!, maybe_panic!, maybe_sleep!,          *)
(* maybe_sleep_async!) and the assertion harness (with_failpoint!,         *)
(* with_failpoint_async!), run by concurrent threads.                      *)
(*                                                                         *)
(* Every DashSet operation (contains / insert / remove) is one atomic step *)
(* (the set takes its shard lock for the whole operation).  Time is        *)
(* counted in whole milliseconds by the Tick action.                       *)
(***************************************************************************)
EXTENDS Integers, FiniteSets, Sequences, TLC

VARIABLES
    FAILPOINTS,       \* the registry: the set of enabled tags
    chaos,            \* build: cfg(feature = "chaos")
    pc,               \* per thread: the position in its current call
    call,             \* per thread: the current (or last) top-level call
    result,           \* per thread: what the registry call / code block returned
    outcome,          \* per thread: how the top-level call ended
    elapsed,          \* per thread: ms since `start = Instant::now()`
    remaining,        \* per thread: ms the current sleep still has to last
    saw,              \* per thread: what the primitive's registry check observed
    after,            \* per thread: the statement after the failpoint has run
    delayed,          \* per thread: ms of delay the primitive has taken
    pre,              \* per thread: the registry when the call started
    touched,          \* per thread: tags other threads wrote during the call
    landed,           \* per tag: the last registry write that landed on it
    guar              \* per thread: is_enabled started with the tag enabled, and
                      \* no disable has landed on the tag since

vars == <<FAILPOINTS, chaos, pc, call, result, outcome, elapsed, remaining, saw,
          after, delayed, pre, touched, landed, guar>>

(* ------------------------------ bounds -------------------------------- *)

\* The clock stops once every timed code block has run this many ms.
MaxElapsed == 4

\* The largest millisecond literal of the delay-window runs (SpecWindow).
MaxMs == 3

Threads == {"t1", "t2"}
Tags == {"fail_test", "sleep_test"}

\* maybe_sleep!(tag, millis): the literal used by the code blocks.
SleepMillis == {2}

\* with_failpoint!(tag, min_ms, tolerance_ms, ..): the literal pairs used.
DelayParams == {<<2, 1>>, <<1, 2>>}

\* The custom error value of maybe_fail!(tag, err).
CustomErr == "Database unreachable"

(* --------------------------- u64 arithmetic --------------------------- *)

\* The millisecond literals are u64.  A u64 is written [wrap, off], standing
\* for wrap * 2^64 + off with off small: a small number is [0, n] and a
\* difference that wrapped around is [1, a - b], i.e. 2^64 - (b - a).
Millis(n) == [wrap |-> 0, off |-> n]

\* a - b in a build without overflow checks (wrapping).
WrappingSub(a, b) == IF a >= b THEN Millis(a - b) ELSE [wrap |-> 1, off |-> a - b]

\* Duration comparison, d1 <= d2.
DurationLe(d1, d2) ==
    \/ d1.wrap < d2.wrap
    \/ d1.wrap = d2.wrap /\ d1.off <= d2.off

(* ------------------------- the tag registry --------------------------- *)

\* Mutant: the lookup always misses.
is_failpoint_enabled_never(reg, tag) == FALSE

is_failpoint_enabled(reg, tag) == tag \in reg

\* Mutant: the insert replaces the set by the one tag.
enable_failpoint_replace(reg, tag) == {tag}

\* Mutant: inserting a present tag removes it (a toggle).
enable_failpoint_toggle(reg, tag) == IF tag \in reg THEN reg \ {tag} ELSE reg \cup {tag}

enable_failpoint(reg, tag) == reg \cup {tag}

\* Mutant: the removal does nothing.
disable_failpoint_noop(reg, tag) == reg

\* Mutant: the removal clears the whole set.
disable_failpoint_clear(reg, tag) == {}

disable_failpoint(reg, tag) == reg \ {tag}

(* ------------------------------ calls --------------------------------- *)

NoCode == [prim |-> "none", tag |-> "", millis |-> 0]

NoCall == [kind |-> "none", tag |-> "", mode |-> "", min_ms |-> 0,
           tolerance_ms |-> 0, code |-> NoCode]

NoResult == [kind |-> "none", val |-> ""]

RegistryOps == {"enable_failpoint", "disable_failpoint", "is_failpoint_enabled"}

RegistryCalls ==
    {[NoCall EXCEPT !.kind = k, !.tag = T] : k \in RegistryOps, T \in Tags}

\* A code block is a function whose body is one statement (a primitive, a
\* plain panic!() or a plain `return Err(..)`) followed by its normal return.
FailCodes ==
    {[prim |-> p, tag |-> T, millis |-> 0] :
        p \in {"maybe_fail", "maybe_fail_err", "maybe_panic"}, T \in Tags}

PlainCodes == {[NoCode EXCEPT !.prim = p] : p \in {"panic", "err"}}

SleepCodes ==
    {[prim |-> "maybe_sleep", tag |-> T, millis |-> m] : T \in Tags, m \in SleepMillis}

SleepAsyncCodes ==
    {[prim |-> "maybe_sleep_async", tag |-> T, millis |-> m] :
        T \in Tags, m \in SleepMillis}

SyncCodes == FailCodes \cup PlainCodes \cup SleepCodes

AsyncCodes == SleepAsyncCodes \cup {[NoCode EXCEPT !.prim = "panic"]}

FnCalls ==
    {[NoCall EXCEPT !.kind = "fn", !.code = c] : c \in SyncCodes \cup SleepAsyncCodes}

HarnessKinds == {"with_failpoint", "with_failpoint_async"}

\* The code blocks tried in each arm: the arm's own primitive on either tag,
\* and blocks that panic or fail without any failpoint.
PanicArmCodes == {c \in SyncCodes : c.prim \in {"maybe_panic", "panic"}}

ErrorArmCodes ==
    {c \in SyncCodes : c.prim \in {"maybe_fail", "maybe_fail_err", "panic", "err"}}

DelayArmCodes == {c \in SyncCodes : c.prim \in {"maybe_sleep", "panic"}}

HarnessCalls ==
    {[NoCall EXCEPT !.kind = "with_failpoint", !.tag = T, !.mode = "panic", !.code = c] :
        T \in Tags, c \in PanicArmCodes}
    \cup
    {[NoCall EXCEPT !.kind = "with_failpoint", !.tag = T, !.mode = "error", !.code = c] :
        T \in Tags, c \in ErrorArmCodes}
    \cup
    {[kind |-> "with_failpoint", tag |-> T, mode |-> "delay", min_ms |-> p[1],
      tolerance_ms |-> p[2], code |-> c] :
        T \in Tags, p \in DelayParams, c \in DelayArmCodes}
    \cup
    {[kind |-> "with_failpoint_async", tag |-> T, mode |-> "delay", min_ms |-> p[1],
      tolerance_ms |-> p[2], code |-> c] :
        T \in Tags, p \in DelayParams, c \in AsyncCodes}

\* The test thread runs anything; the other thread works on the registry.
Menu(t) == IF t = "t1" THEN RegistryCalls \cup FnCalls \cup HarnessCalls
           ELSE RegistryCalls

(* --------------------------- build features -------------------------- *)

\* Mutant: the primitives lose their #[cfg(feature = "chaos")] attribute.
PrimitiveCompiledAlways(feature) == TRUE

\* The body of an injection primitive is compiled only with the feature.
PrimitiveCompiled(feature) == feature

\* Mutant: the harness macros lose their #[cfg(feature = "chaos")] attribute.
HarnessCompiledAlways(feature) == TRUE

\* The body of a harness macro is compiled only with the feature.
HarnessCompiled(feature) == feature

(* ------------------------------ state --------------------------------- *)

\* Mutant: the registry is created with a tag already in it.
InitPreloaded ==
    /\ FAILPOINTS = {"fail_test"}
    /\ chaos \in BOOLEAN
    /\ pc = [t \in Threads |-> "idle"]
    /\ call = [t \in Threads |-> NoCall]
    /\ result = [t \in Threads |-> NoResult]
    /\ outcome = [t \in Threads |-> "none"]
    /\ elapsed = [t \in Threads |-> 0]
    /\ remaining = [t \in Threads |-> 0]
    /\ saw = [t \in Threads |-> "none"]
    /\ after = [t \in Threads |-> FALSE]
    /\ delayed = [t \in Threads |-> 0]
    /\ pre = [t \in Threads |-> {}]
    /\ touched = [t \in Threads |-> {}]
    /\ landed = [T \in Tags |-> "none"]
    /\ guar = [t \in Threads |-> FALSE]

Init ==
    /\ FAILPOINTS = {}
    /\ chaos \in BOOLEAN
    /\ pc = [t \in Threads |-> "idle"]
    /\ call = [t \in Threads |-> NoCall]
    /\ result = [t \in Threads |-> NoResult]
    /\ outcome = [t \in Threads |-> "none"]
    /\ elapsed = [t \in Threads |-> 0]
    /\ remaining = [t \in Threads |-> 0]
    /\ saw = [t \in Threads |-> "none"]
    /\ after = [t \in Threads |-> FALSE]
    /\ delayed = [t \in Threads |-> 0]
    /\ pre = [t \in Threads |-> {}]
    /\ touched = [t \in Threads |-> {}]
    /\ landed = [T \in Tags |-> "none"]
    /\ guar = [t \in Threads |-> FALSE]

\* Thread u has called is_failpoint_enabled(T), which has not read yet.
InFlightOn(u, T) ==
    call[u].kind = "is_failpoint_enabled" /\ call[u].tag = T /\ pc[u] = "r_land"

\* The bookkeeping of a registry write by thread t on tag T.
Wrote(t, T, op) ==
    /\ landed' = [landed EXCEPT ![T] = op]
    /\ touched' = [u \in Threads |->
                     IF u # t /\ call[u].kind \in HarnessKinds \cup {"fn"}
                     THEN touched[u] \cup {T} ELSE touched[u]]

\* A top-level call starts.  Without the chaos feature the harness macros
\* expand to an empty block: the call returns at once.
Call(t, c) ==
    /\ pc[t] = "idle"
    /\ call[t] = NoCall
    /\ call' = [call EXCEPT ![t] = c]
    /\ result' = [result EXCEPT ![t] = NoResult]
    /\ elapsed' = [elapsed EXCEPT ![t] = 0]
    /\ remaining' = [remaining EXCEPT ![t] = 0]
    /\ saw' = [saw EXCEPT ![t] = "none"]
    /\ after' = [after EXCEPT ![t] = FALSE]
    /\ delayed' = [delayed EXCEPT ![t] = 0]
    /\ pre' = [pre EXCEPT ![t] = IF c.kind \in HarnessKinds THEN FAILPOINTS ELSE {}]
    /\ touched' = [touched EXCEPT ![t] = {}]
    /\ guar' = [guar EXCEPT ![t] =
                  c.kind = "is_failpoint_enabled" /\ landed[c.tag] = "enable"]
    /\ IF c.kind \in HarnessKinds /\ ~HarnessCompiled(chaos)
       THEN /\ pc' = pc
            /\ outcome' = [outcome EXCEPT ![t] = "returned"]
       ELSE /\ pc' = [pc EXCEPT ![t] =
                        CASE c.kind \in RegistryOps -> "r_land"
                          [] c.kind = "fn" -> "c_check"
                          [] OTHER -> "h_enable"]
            /\ outcome' = [outcome EXCEPT ![t] = "running"]
    /\ UNCHANGED <<FAILPOINTS, chaos, landed>>

\* The registry call of thread t takes effect and returns.
Land(t) ==
    /\ pc[t] = "r_land"
    /\ pc' = [pc EXCEPT ![t] = "idle"]
    /\ outcome' = [outcome EXCEPT ![t] = "returned"]
    /\ LET T == call[t].tag IN
       CASE call[t].kind = "enable_failpoint" ->
              /\ FAILPOINTS' = enable_failpoint(FAILPOINTS, T)
              /\ Wrote(t, T, "enable")
              /\ UNCHANGED <<result, guar>>
         [] call[t].kind = "disable_failpoint" ->
              /\ FAILPOINTS' = disable_failpoint(FAILPOINTS, T)
              /\ Wrote(t, T, "disable")
              /\ guar' = [u \in Threads |-> guar[u] /\ ~InFlightOn(u, T)]
              /\ UNCHANGED result
         [] OTHER ->
              /\ result' = [result EXCEPT ![t] =
                              [kind |-> "bool",
                               val |-> IF is_failpoint_enabled(FAILPOINTS, T)
                                       THEN "true" ELSE "false"]]
              /\ UNCHANGED <<FAILPOINTS, landed, touched, guar>>
    /\ UNCHANGED <<chaos, call, elapsed, remaining, saw, after, delayed, pre>>

\* The caller of thread t's finished call returns: its locals are dropped.
Forget(t) ==
    /\ pc[t] = "idle"
    /\ call[t] # NoCall
    /\ call' = [call EXCEPT ![t] = NoCall]
    /\ result' = [result EXCEPT ![t] = NoResult]
    /\ outcome' = [outcome EXCEPT ![t] = "none"]
    /\ elapsed' = [elapsed EXCEPT ![t] = 0]
    /\ saw' = [saw EXCEPT ![t] = "none"]
    /\ after' = [after EXCEPT ![t] = FALSE]
    /\ delayed' = [delayed EXCEPT ![t] = 0]
    /\ pre' = [pre EXCEPT ![t] = {}]
    /\ touched' = [touched EXCEPT ![t] = {}]
    /\ guar' = [guar EXCEPT ![t] = FALSE]
    /\ UNCHANGED <<FAILPOINTS, chaos, pc, remaining, landed>>

(* ----------------------- injection primitives ------------------------- *)

\* The error value of the one-argument maybe_fail!: Err($tag.into()).
ErrFromTag(tag) == tag

\* Mutant: the one-argument form's error is not derived from the tag.
maybe_fail_custom_only(code, en) ==
    IF en THEN [kind |-> "Err", val |-> CustomErr] ELSE [kind |-> "continue", val |-> ""]

\* Mutant: the sleep is taken whether or not the tag is enabled.
maybe_sleep_always(code, en) == [kind |-> "sleep", val |-> ""]

\* What the primitive of code block `code` does when its check finds the tag
\* enabled (en) or not: the block's result, "sleep", or "continue".
maybe_fail(code, en) ==
    IF en
    THEN [kind |-> "Err",
          val |-> IF code.prim = "maybe_fail" THEN ErrFromTag(code.tag) ELSE CustomErr]
    ELSE [kind |-> "continue", val |-> ""]

\* Mutant: the panic is raised whether or not the tag is enabled.
maybe_panic_always(code, en) == [kind |-> "Panic", val |-> code.tag]

maybe_panic(code, en) ==
    IF en THEN [kind |-> "Panic", val |-> code.tag] ELSE [kind |-> "continue", val |-> ""]

maybe_sleep(code, en) ==
    IF en THEN [kind |-> "sleep", val |-> ""] ELSE [kind |-> "continue", val |-> ""]

Primitive(code, en) ==
    CASE code.prim \in {"maybe_fail", "maybe_fail_err"} -> maybe_fail(code, en)
      [] code.prim = "maybe_panic" -> maybe_panic(code, en)
      [] OTHER -> maybe_sleep(code, en)

\* The clock of thread t runs between `start = Instant::now()` and
\* `start.elapsed()`, i.e. while the code block of a delay harness runs.
CodePcs == {"c_check", "c_sleep", "c_after"}

Timing(t) == call[t].kind \in HarnessKinds /\ call[t].mode = "delay" /\ pc[t] \in CodePcs

\* Mutant: the panic arm runs the code block without catch_unwind.
CatchesNothing(c) == FALSE

\* Mutant: every arm runs the code block under catch_unwind.
CatchesAll(c) == c.kind \in HarnessKinds

\* Only catch_unwind (the panic arm) stops a panic of the code block.
Catches(c) == c.kind = "with_failpoint" /\ c.mode = "panic"

\* The code block of thread t ends with result res: a function call returns
\* to the test, a harness goes on to its disable step, and a panic that
\* nothing catches unwinds out of the harness.
\* Mutant: a caught outcome goes straight to the assertion, with no disable.
FinishSkipsDisable(t, res) ==
    /\ result' = [result EXCEPT ![t] = res]
    /\ IF call[t].kind = "fn" \/ (res.kind = "Panic" /\ ~Catches(call[t]))
       THEN /\ pc' = [pc EXCEPT ![t] = "idle"]
            /\ outcome' = [outcome EXCEPT ![t] =
                             IF res.kind = "Panic" THEN "panicked" ELSE "returned"]
       ELSE /\ pc' = [pc EXCEPT ![t] = "h_assert"]
            /\ UNCHANGED outcome

Finish(t, res) ==
    /\ result' = [result EXCEPT ![t] = res]
    /\ IF call[t].kind = "fn" \/ (res.kind = "Panic" /\ ~Catches(call[t]))
       THEN /\ pc' = [pc EXCEPT ![t] = "idle"]
            /\ outcome' = [outcome EXCEPT ![t] =
                             IF res.kind = "Panic" THEN "panicked" ELSE "returned"]
       ELSE /\ pc' = [pc EXCEPT ![t] = "h_disable"]
            /\ UNCHANGED outcome

\* The one statement of the code block: a plain panic or error return, or a
\* primitive, which without the chaos feature expands to nothing.
CCheck(t) ==
    /\ pc[t] = "c_check"
    /\ LET code == call[t].code
           en == is_failpoint_enabled(FAILPOINTS, code.tag)
           eff == Primitive(code, en)
       IN  CASE code.prim = "panic" ->
                  /\ Finish(t, [kind |-> "Panic", val |-> "explicit panic"])
                  /\ UNCHANGED <<saw, remaining>>
             [] code.prim = "err" ->
                  /\ Finish(t, [kind |-> "Err", val |-> "unrelated error"])
                  /\ UNCHANGED <<saw, remaining>>
             [] code.prim \notin {"panic", "err"} /\ ~PrimitiveCompiled(chaos) ->
                  /\ pc' = [pc EXCEPT ![t] = "c_after"]
                  /\ UNCHANGED <<saw, remaining, result, outcome>>
             [] OTHER ->
                  /\ saw' = [saw EXCEPT ![t] = IF en THEN "enabled" ELSE "disabled"]
                  /\ CASE eff.kind = "continue" ->
                            /\ pc' = [pc EXCEPT ![t] = "c_after"]
                            /\ UNCHANGED <<remaining, result, outcome>>
                       [] eff.kind = "sleep" ->
                            /\ pc' = [pc EXCEPT ![t] = "c_sleep"]
                            /\ remaining' = [remaining EXCEPT ![t] = code.millis]
                            /\ UNCHANGED <<result, outcome>>
                       [] OTHER ->
                            /\ Finish(t, eff)
                            /\ UNCHANGED remaining
    /\ UNCHANGED <<FAILPOINTS, chaos, call, elapsed, after, delayed,
                   pre, touched, landed, guar>>

\* Mutant: the sleep may return before its time is up.
CWakeEarly(t) ==
    /\ pc[t] = "c_sleep"
    /\ pc' = [pc EXCEPT ![t] = "c_after"]
    /\ UNCHANGED <<FAILPOINTS, chaos, call, result, outcome, elapsed,
                   remaining, saw, after, delayed, pre, touched, landed, guar>>

\* The sleep of thread t is over: thread::sleep / Delay return.
CWake(t) ==
    /\ pc[t] = "c_sleep"
    /\ remaining[t] = 0
    /\ pc' = [pc EXCEPT ![t] = "c_after"]
    /\ UNCHANGED <<FAILPOINTS, chaos, call, result, outcome, elapsed,
                   remaining, saw, after, delayed, pre, touched, landed, guar>>

\* The statement after the failpoint: the function's normal return.
CAfter(t) ==
    /\ pc[t] = "c_after"
    /\ after' = [after EXCEPT ![t] = TRUE]
    /\ Finish(t, [kind |-> "Ok", val |-> "ok"])
    /\ UNCHANGED <<FAILPOINTS, chaos, call, elapsed, remaining, saw,
                   delayed, pre, touched, landed, guar>>

\* One millisecond passes: for every running clock and every sleeper.  The
\* clock is stopped at `bound` unless a sleeper still waits for it.
Tick(bound) ==
    /\ \/ \E t \in Threads : pc[t] = "c_sleep" /\ remaining[t] > 0
       \/ /\ \E t \in Threads : Timing(t)
          /\ \A t \in Threads : Timing(t) => elapsed[t] < bound
    /\ elapsed' = [t \in Threads |-> IF Timing(t) THEN elapsed[t] + 1 ELSE elapsed[t]]
    /\ remaining' = [t \in Threads |->
                       IF pc[t] = "c_sleep" /\ remaining[t] > 0
                       THEN remaining[t] - 1 ELSE remaining[t]]
    /\ delayed' = [t \in Threads |->
                     IF pc[t] = "c_sleep" THEN delayed[t] + 1 ELSE delayed[t]]
    /\ UNCHANGED <<FAILPOINTS, chaos, pc, call, result, outcome, saw,
                   after, pre, touched, landed, guar>>

(* ------------------------- assertion harness -------------------------- *)

\* enable_failpoint($tag), and `start = Instant::now()` in the delay arms.
HEnable(t) ==
    /\ pc[t] = "h_enable"
    /\ pc' = [pc EXCEPT ![t] = "c_check"]
    /\ FAILPOINTS' = enable_failpoint(FAILPOINTS, call[t].tag)
    /\ Wrote(t, call[t].tag, "enable")
    /\ UNCHANGED <<chaos, call, result, outcome, elapsed, remaining, saw, after,
                   delayed, pre, guar>>

\* disable_failpoint($tag).
HDisable(t) ==
    /\ pc[t] = "h_disable"
    /\ pc' = [pc EXCEPT ![t] = "h_assert"]
    /\ FAILPOINTS' = disable_failpoint(FAILPOINTS, call[t].tag)
    /\ Wrote(t, call[t].tag, "disable")
    /\ guar' = [u \in Threads |-> guar[u] /\ ~InFlightOn(u, call[t].tag)]
    /\ UNCHANGED <<chaos, call, result, outcome, elapsed, remaining,
                   saw, after, delayed, pre>>

\* Mutant: the window check excludes its upper bound (elapsed < max).
InWindowStrict(min_ms, tolerance_ms, e) ==
    /\ DurationLe(Millis(e + 1), Millis(min_ms + tolerance_ms))
    /\ DurationLe(WrappingSub(min_ms, tolerance_ms), Millis(e))

\* elapsed <= max && elapsed >= min, with max = from_millis(min_ms + tolerance_ms)
\* and min = from_millis(min_ms - tolerance_ms).
InWindow(min_ms, tolerance_ms, e) ==
    /\ DurationLe(Millis(e), Millis(min_ms + tolerance_ms))
    /\ DurationLe(WrappingSub(min_ms, tolerance_ms), Millis(e))

\* Mutant: the panic and error arms pass only for the failpoint's own payload.
VerdictChecksOrigin(c, res, e, checks) ==
    CASE c.mode = "panic" ->
           IF res.kind = "Panic" /\ res.val = c.tag THEN "passed" ELSE "assert_failed"
      [] c.mode = "error" ->
           IF res.kind = "Err" /\ res.val \in {c.tag, CustomErr}
           THEN "passed" ELSE "assert_failed"
      [] OTHER ->
           IF c.tolerance_ms > c.min_ms /\ checks THEN "overflow_panic"
           ELSE IF InWindow(c.min_ms, c.tolerance_ms, e) THEN "passed"
           ELSE "assert_failed"

\* Mutant: the error arm's match has its arms swapped (Ok passes, Err fails).
VerdictErrSwapped(c, res, e, checks) ==
    CASE c.mode = "panic" -> IF res.kind = "Panic" THEN "passed" ELSE "assert_failed"
      [] c.mode = "error" -> IF res.kind = "Ok" THEN "passed" ELSE "assert_failed"
      [] OTHER -> "assert_failed"

\* The final match / assert! of the harness.  `checks`: the build panics on
\* integer overflow (debug) instead of wrapping (release).
Verdict(c, res, e, checks) ==
    CASE c.mode = "panic" -> IF res.kind = "Panic" THEN "passed" ELSE "assert_failed"
      [] c.mode = "error" -> IF res.kind = "Err" THEN "passed" ELSE "assert_failed"
      [] OTHER ->
           IF c.tolerance_ms > c.min_ms /\ checks THEN "overflow_panic"
           ELSE IF InWindow(c.min_ms, c.tolerance_ms, e) THEN "passed"
           ELSE "assert_failed"

HAssert(t) ==
    /\ pc[t] = "h_assert"
    /\ pc' = [pc EXCEPT ![t] = "idle"]
    /\ \E checks \in BOOLEAN :
           outcome' = [outcome EXCEPT ![t] =
                         Verdict(call[t], result[t], elapsed[t], checks)]
    /\ UNCHANGED <<FAILPOINTS, chaos, call, result, elapsed, remaining,
                   saw, after, delayed, pre, touched, landed, guar>>

Next ==
    \/ \E t \in Threads :
        \/ \E c \in Menu(t) : Call(t, c)
        \/ Land(t)
        \/ Forget(t)
        \/ HEnable(t)
        \/ CCheck(t)
        \/ CWake(t)
        \/ CAfter(t)
        \/ HDisable(t)
        \/ HAssert(t)
    \/ Tick(MaxElapsed)

Spec == Init /\ [][Next]_vars

(* The delay arms alone, over every pair of literals up to MaxMs: one test  *)
(* thread runs with_failpoint!(T, min_ms, tolerance_ms, ..) and              *)
(* with_failpoint_async! around a sleep of every length on either tag.       *)

WindowCalls ==
    {[kind |-> k, tag |-> "sleep_test", mode |-> "delay", min_ms |-> lo,
      tolerance_ms |-> tol,
      code |-> [prim |-> IF k = "with_failpoint" THEN "maybe_sleep"
                         ELSE "maybe_sleep_async",
                tag |-> T, millis |-> m]] :
        k \in HarnessKinds, lo \in 0..MaxMs, tol \in 0..MaxMs, T \in Tags,
        m \in 1..MaxMs}

NextWindow ==
    \/ \E c \in WindowCalls : Call("t1", c)
    \/ Forget("t1")
    \/ HEnable("t1")
    \/ CCheck("t1")
    \/ CWake("t1")
    \/ CAfter("t1")
    \/ HDisable("t1")
    \/ HAssert("t1")
    \/ Tick(2 * MaxMs + 1)

SpecWindow == Init /\ [][NextWindow]_vars

(* A function with a delay failpoint runs on one thread while another      *)
(* thread enables and disables tags.  Time passes and a sleep whose time is  *)
(* up returns: thread::sleep and Delay are not cancellable from outside.     *)

SleepCalls == {c \in FnCalls : c.code.prim \in {"maybe_sleep", "maybe_sleep_async"}}

WriteCalls == {c \in RegistryCalls : c.kind \in {"enable_failpoint", "disable_failpoint"}}

NextSleep ==
    \/ \E c \in SleepCalls : Call("t1", c)
    \/ CCheck("t1")
    \/ CWake("t1")
    \/ CAfter("t1")
    \/ \E c \in WriteCalls : Call("t2", c)
    \/ Land("t2")
    \/ \E t \in Threads : Forget(t)
    \/ Tick(MaxElapsed)

SpecSleep ==
    /\ Init /\ [][NextSleep]_vars
    /\ WF_vars(Tick(MaxElapsed))
    /\ WF_vars(CWake("t1"))

(* Two test threads, as `cargo test` runs the tests of lib.rs in parallel:  *)
(* each runs harnesses around a function whose failpoint has the harness's   *)
(* own tag.  In the first specification both threads use one tag, in the     *)
(* second each thread has its own tag.                                       *)

\* The tests are built with the chaos feature.
InitTests == Init /\ chaos

TestCalls(T) ==
    {c \in HarnessCalls :
        /\ c.kind = "with_failpoint" /\ c.tag = T /\ c.code.tag = T
        /\ c.code.prim \in {"maybe_fail", "maybe_panic", "maybe_sleep"}
        /\ c.mode = "delay" => c.tolerance_ms < c.min_ms}

TestSteps(t) ==
    \/ Forget(t)
    \/ HEnable(t)
    \/ CCheck(t)
    \/ CWake(t)
    \/ CAfter(t)
    \/ HDisable(t)
    \/ HAssert(t)

\* With two clocks a stalled thread's clock could run on for ever while the
\* other thread sleeps again and again: time stops once a clock or a sleep
\* has passed MaxElapsed.
TestTick ==
    /\ \A t \in Threads : elapsed[t] <= MaxElapsed /\ delayed[t] <= MaxElapsed
    /\ Tick(MaxElapsed)

NextSameTag ==
    \/ \E t \in Threads :
        \/ \E c \in TestCalls("fail_test") : Call(t, c)
        \/ TestSteps(t)
    \/ TestTick

SpecSameTag == InitTests /\ [][NextSameTag]_vars

TagOf(t) == IF t = "t1" THEN "fail_test" ELSE "sleep_test"

NextDistinctTags ==
    \/ \E t \in Threads :
        \/ \E c \in TestCalls(TagOf(t)) : Call(t, c)
        \/ TestSteps(t)
    \/ TestTick

SpecDistinctTags == InitTests /\ [][NextDistinctTags]_vars

(* ------------------------------ claims -------------------------------- *)

\* Thread t's call has ended and its caller still holds what it returned.
Done(t) == pc[t] = "idle" /\ call[t] # NoCall

InHarness(t, mode) == call[t].kind \in HarnessKinds /\ call[t].mode = mode

\* No other thread has written tag T since thread t's call started.
Untouched(t, T) == T \notin touched[t]

\* C1: in a chaos build the error-mode harness has the tag enabled while the
\* code runs and disabled when it asserts (absent other writers); once the
\* code has returned it passes iff the code returned Err and raises an
\* assertion failure on Ok; and when the code is maybe_fail on the harness's
\* own tag and no other thread writes that tag, the code returns Err, the
\* harness passes and the tag is not in the registry afterwards.
C1_ErrorMode ==
    \A t \in Threads :
        (chaos /\ InHarness(t, "error")) =>
            LET T == call[t].tag IN
            /\ (pc[t] \in CodePcs /\ Untouched(t, T)) => T \in FAILPOINTS
            /\ (pc[t] = "h_assert" /\ Untouched(t, T)) => T \notin FAILPOINTS
            /\ (Done(t) /\ result[t].kind \in {"Ok", "Err"}) =>
                   /\ outcome[t] = "passed" <=> result[t].kind = "Err"
                   /\ result[t].kind = "Ok" => outcome[t] = "assert_failed"
            /\ ( /\ Done(t)
                 /\ call[t].code.prim \in {"maybe_fail", "maybe_fail_err"}
                 /\ call[t].code.tag = T
                 /\ Untouched(t, T) ) =>
                   /\ result[t].kind = "Err"
                   /\ outcome[t] = "passed"
                   /\ T \notin FAILPOINTS

C1_Witness ==
    \E t \in Threads :
        /\ chaos /\ InHarness(t, "error") /\ Done(t)
        /\ call[t].code = [prim |-> "maybe_fail", tag |-> "fail_test", millis |-> 0]
        /\ call[t].tag = "fail_test"
        /\ Untouched(t, "fail_test")
        /\ result[t] = [kind |-> "Err", val |-> "fail_test"]
        /\ outcome[t] = "passed"
        /\ "sleep_test" \in FAILPOINTS

\* C2: in a chaos build the panic-mode harness never lets a panic of the code
\* block out; it passes iff the code panicked and raises an assertion failure
\* when the code completed; with maybe_panic on the harness's own tag and no
\* other writer of the tag, the panic (carrying the tag) is raised and the
\* harness returns normally; on either outcome the tag is disabled when the
\* harness exits.
C2_PanicMode ==
    \A t \in Threads :
        (chaos /\ InHarness(t, "panic")) =>
            LET T == call[t].tag IN
            /\ outcome[t] # "panicked"
            /\ Done(t) =>
                   /\ outcome[t] = "passed" <=> result[t].kind = "Panic"
                   /\ result[t].kind # "Panic" => outcome[t] = "assert_failed"
                   /\ Untouched(t, T) => T \notin FAILPOINTS
            /\ ( /\ Done(t)
                 /\ call[t].code.prim = "maybe_panic"
                 /\ call[t].code.tag = T
                 /\ Untouched(t, T) ) =>
                   /\ result[t] = [kind |-> "Panic", val |-> T]
                   /\ outcome[t] = "passed"

C2_Witness ==
    \E t \in Threads :
        /\ chaos /\ InHarness(t, "panic") /\ Done(t)
        /\ call[t].code.prim = "maybe_panic"
        /\ call[t].code.tag = call[t].tag
        /\ Untouched(t, call[t].tag)
        /\ result[t].kind = "Panic"
        /\ outcome[t] = "passed"
        /\ call[t].tag \notin FAILPOINTS

\* C3: in a chaos build, for every pair of literals with tolerance_ms <=
\* min_ms and every elapsed time e (whole ms) of a code block that returned,
\* the delay harness (sync and async) passes iff
\* min_ms - tolerance_ms <= e <= min_ms + tolerance_ms, and otherwise raises
\* the assertion failure; with 50 and 10 the window is exactly [40, 60].
C3_DelayWindow ==
    /\ \A t \in Threads :
          ( /\ chaos /\ InHarness(t, "delay") /\ Done(t)
            /\ result[t].kind # "Panic"
            /\ call[t].tolerance_ms <= call[t].min_ms ) =>
              /\ outcome[t] = "passed" <=>
                     /\ call[t].min_ms - call[t].tolerance_ms <= elapsed[t]
                     /\ elapsed[t] <= call[t].min_ms + call[t].tolerance_ms
              /\ outcome[t] \in {"passed", "assert_failed"}
    /\ \A e \in 0..100 : InWindow(50, 10, e) <=> (40 <= e /\ e <= 60)

C3_Witness ==
    \E t \in Threads :
        /\ chaos /\ Done(t)
        /\ call[t].kind = "with_failpoint_async" /\ call[t].mode = "delay"
        /\ call[t].tolerance_ms > 0
        /\ call[t].tolerance_ms <= call[t].min_ms
        /\ call[t].code.tag = call[t].tag
        /\ delayed[t] >= call[t].code.millis
        /\ elapsed[t] = call[t].min_ms + call[t].tolerance_ms
        /\ outcome[t] = "passed"

\* The step of thread t that leaves position p.
Leaves(t, p) == pc[t] = p /\ pc'[t] # p

\* The states of a harness whose code block has panicked (part of C4).
C4_StateOnPanic ==
    \A t \in Threads :
        (chaos /\ call[t].kind \in HarnessKinds) =>
            LET T == call[t].tag IN
            /\ (result[t].kind = "Panic" /\ call[t].mode # "panic") =>
                   /\ Done(t)
                   /\ outcome[t] = "panicked"
                   /\ Untouched(t, T) => T \in FAILPOINTS
            /\ call[t].mode = "panic" =>
                   /\ outcome[t] # "panicked"
                   /\ (Done(t) /\ Untouched(t, T)) => T \notin FAILPOINTS

\* The step in which the code block of a harness panics (part of C4).
C4_StepOnPanic ==
    \A t \in Threads :
        ( /\ chaos /\ call[t].kind \in HarnessKinds
          /\ Leaves(t, "c_check") /\ result'[t].kind = "Panic" ) =>
            IF call[t].mode = "panic"
            THEN pc'[t] = "h_disable"
            ELSE /\ pc'[t] = "idle"
                 /\ outcome'[t] = "panicked"
                 /\ FAILPOINTS' = FAILPOINTS

\* C4: in a chaos build, a panic of the code block inside the error arm, the
\* sync delay arm or with_failpoint_async leaves the harness in the very step
\* that raises it: it propagates, no disable step runs (the registry is as
\* it was) and, absent other writers of the tag, the tag stays in the
\* registry afterwards; inside the panic arm the panic is caught and the
\* tag is disabled on every exit path.
C4_OnlyPanicModeRecovers == []C4_StateOnPanic /\ [][C4_StepOnPanic]_vars

C4_Witness ==
    \E t \in Threads :
        /\ chaos /\ Done(t)
        /\ call[t].kind = "with_failpoint_async"
        /\ result[t].kind = "Panic"
        /\ outcome[t] = "panicked"
        /\ Untouched(t, call[t].tag)
        /\ call[t].tag \in FAILPOINTS
        /\ call[t].tag \notin pre[t]

\* C5 as claimed: whenever a harness call has run its code block through to
\* the final assertion and no other thread has written the registry, every
\* tag's membership is what it was when the call started.
C5_RegistryRestored ==
    \A t \in Threads :
        ( /\ call[t].kind \in HarnessKinds /\ Done(t) /\ touched[t] = {}
          /\ outcome[t] # "panicked" ) =>
            \A T \in Tags : T \in FAILPOINTS <=> T \in pre[t]

\* C5 as amended: whenever a harness call has ended and no other thread has
\* written the registry, the registry is the one the call started from with
\* the harness's tag removed (whether or not it was enabled before), or with
\* the tag added when a panic of the code block left the harness before its
\* disable step; without the chaos feature the registry is untouched.  So
\* the registry is restored exactly when the tag was not enabled before and
\* the disable step was reached.
C5_RegistryMinusTag ==
    \A t \in Threads :
        (call[t].kind \in HarnessKinds /\ Done(t) /\ touched[t] = {}) =>
            FAILPOINTS = CASE ~chaos -> pre[t]
                           [] chaos /\ outcome[t] = "panicked" ->
                                pre[t] \cup {call[t].tag}
                           [] OTHER -> pre[t] \ {call[t].tag}

C5_Witness ==
    \E t \in Threads :
        /\ chaos /\ call[t].kind \in HarnessKinds /\ Done(t) /\ touched[t] = {}
        /\ outcome[t] = "passed"
        /\ call[t].tag \in pre[t]
        /\ FAILPOINTS # pre[t]
        /\ FAILPOINTS = pre[t] \ {call[t].tag}

\* The steps in which an enable_failpoint / disable_failpoint of thread t
\* takes effect: a direct call, or the harness's own.
EnableStep(t) ==
    \/ Leaves(t, "r_land") /\ call[t].kind = "enable_failpoint"
    \/ Leaves(t, "h_enable")

DisableStep(t) ==
    \/ Leaves(t, "r_land") /\ call[t].kind = "disable_failpoint"
    \/ Leaves(t, "h_disable")

\* What every enable and disable step does to the registry (the body of C6).
C6_Step ==
    \A t \in Threads :
        LET T == call[t].tag IN
        /\ EnableStep(t) =>
              /\ is_failpoint_enabled(FAILPOINTS', T)
              /\ enable_failpoint(FAILPOINTS', T) = FAILPOINTS'
              /\ is_failpoint_enabled(FAILPOINTS, T) => FAILPOINTS' = FAILPOINTS
        /\ DisableStep(t) =>
              /\ ~is_failpoint_enabled(FAILPOINTS', T)
              /\ disable_failpoint(FAILPOINTS', T) = FAILPOINTS'
              /\ ~is_failpoint_enabled(FAILPOINTS, T) => FAILPOINTS' = FAILPOINTS

\* C6: from every registry state, right after enable(T) is_enabled(T) is
\* true and right after disable(T) it is false; a second enable(T)
\* (disable(T)) leaves the registry the first one produced, and an enable
\* of an enabled tag (a disable of a disabled one) changes nothing.
C6_EnableDisableIdempotent == [][C6_Step]_vars

C6_Witness ==
    /\ \A t \in Threads :
          Done(t) /\ call[t].kind = "enable_failpoint" /\ call[t].tag = "sleep_test"
    /\ FAILPOINTS = {"sleep_test"}

\* C7: in a chaos build, once the check of maybe_fail has found its tag
\* enabled the enclosing function has returned Err - of the tag for the
\* one-argument form, of the supplied value for the two-argument form - and
\* the statement after the failpoint has not run and never runs.
C7_FailReturnsErr ==
    \A t \in Threads :
        ( /\ call[t].code.prim \in {"maybe_fail", "maybe_fail_err"}
          /\ saw[t] = "enabled" ) =>
            /\ result[t] = [kind |-> "Err",
                            val |-> IF call[t].code.prim = "maybe_fail"
                                    THEN call[t].code.tag ELSE CustomErr]
            /\ ~after[t]
            /\ pc[t] \notin CodePcs
            /\ call[t].kind = "fn" => Done(t) /\ outcome[t] = "returned"

C7_Witness ==
    \E t \in Threads :
        /\ call[t].kind = "fn" /\ Done(t)
        /\ call[t].code = [prim |-> "maybe_fail", tag |-> "sleep_test", millis |-> 0]
        /\ saw[t] = "enabled"
        /\ result[t] = [kind |-> "Err", val |-> "sleep_test"]
        /\ ~after[t]

\* After a check that found the tag disabled (part of C8).
C8_State ==
    \A t \in Threads :
        saw[t] = "disabled" =>
            /\ delayed[t] = 0 /\ remaining[t] = 0
            /\ pc[t] # "c_sleep"
            /\ outcome[t] # "panicked"
            /\ pc[t] = "c_after" \/ (after[t] /\ result[t] = [kind |-> "Ok", val |-> "ok"])

\* The check step that finds the tag disabled (part of C8).
C8_Step ==
    \A t \in Threads :
        ( /\ chaos /\ Leaves(t, "c_check")
          /\ call[t].code.prim \in
                {"maybe_fail", "maybe_fail_err", "maybe_panic", "maybe_sleep",
                 "maybe_sleep_async"}
          /\ ~is_failpoint_enabled(FAILPOINTS, call[t].code.tag) ) =>
            /\ saw'[t] = "disabled"
            /\ pc'[t] = "c_after"
            /\ FAILPOINTS' = FAILPOINTS
            /\ result'[t] = NoResult
            /\ remaining'[t] = 0

\* C8: in a chaos build, a primitive whose check finds its tag not in the
\* registry does nothing: the check step leaves the registry as it was,
\* returns nothing, starts no sleep and goes on to the next statement, and
\* from then on the function has taken no delay, raised no panic or error
\* and ends in its normal return - whatever other tags are enabled.
C8_DisabledIsNoOp == []C8_State /\ [][C8_Step]_vars

C8_Witness ==
    \E t \in Threads :
        /\ call[t].kind = "fn" /\ Done(t)
        /\ call[t].code.prim = "maybe_sleep_async"
        /\ call[t].code.tag = "sleep_test"
        /\ saw[t] = "disabled"
        /\ FAILPOINTS = {"fail_test"}
        /\ pre[t] = {}
        /\ result[t].kind = "Ok" /\ outcome[t] = "returned" /\ delayed[t] = 0

\* C9: under every interleaving, each tag is in the registry iff the last
\* enable or disable that landed on that tag was an enable (and it is absent
\* while none has landed): no write on one tag loses or undoes a write on
\* another.
C9_LastWriteWins ==
    \A T \in Tags : is_failpoint_enabled(FAILPOINTS, T) <=> landed[T] = "enable"

C9_Witness ==
    /\ Done("t1") /\ call["t1"].kind = "enable_failpoint"
    /\ call["t1"].tag = "fail_test"
    /\ Done("t2") /\ call["t2"].kind = "disable_failpoint"
    /\ call["t2"].tag = "sleep_test"
    /\ landed = [T \in Tags |-> IF T = "fail_test" THEN "enable" ELSE "disable"]
    /\ FAILPOINTS = {"fail_test"}

\* C10: an is_enabled(T) call that starts when an enable(T) has taken effect
\* (so also when it has returned), with no disable(T) landing from that
\* enable up to the call's own read, returns true - on any thread.
C10_EnableVisible ==
    \A t \in Threads :
        (call[t].kind = "is_failpoint_enabled" /\ Done(t) /\ guar[t]) =>
            result[t] = [kind |-> "bool", val |-> "true"]

C10_Witness ==
    \E t, u \in Threads :
        /\ t # u
        /\ call[u].kind = "enable_failpoint" /\ Done(u)
        /\ call[t].kind = "is_failpoint_enabled" /\ Done(t)
        /\ call[t].tag = call[u].tag
        /\ guar[t]
        /\ result[t].val = "true"

InjectionPrims ==
    {"maybe_fail", "maybe_fail_err", "maybe_panic", "maybe_sleep", "maybe_sleep_async"}

\* C11: in a build without the chaos feature every injection primitive is a
\* pure no-op, for every tag and registry state, also when its tag is in the
\* registry: the registry is never consulted, no error and no panic is
\* raised, no delay is taken, and the function ends in its normal return.
C11_NoChaosPrimitivesNoOp ==
    \A t \in Threads :
        (~chaos /\ call[t].kind = "fn" /\ call[t].code.prim \in InjectionPrims) =>
            /\ saw[t] = "none"
            /\ delayed[t] = 0 /\ remaining[t] = 0
            /\ pc[t] \in {"c_check", "c_after", "idle"}
            /\ result[t].kind \in {"none", "Ok"}
            /\ outcome[t] \in {"running", "returned"}
            /\ Done(t) => (after[t] /\ result[t] = [kind |-> "Ok", val |-> "ok"])

C11_Witness ==
    \E t \in Threads :
        /\ ~chaos /\ call[t].kind = "fn" /\ Done(t)
        /\ call[t].code.prim = "maybe_panic"
        /\ call[t].code.tag \in FAILPOINTS
        /\ Untouched(t, call[t].code.tag)
        /\ saw[t] = "none"
        /\ result[t].kind = "Ok" /\ outcome[t] = "returned"

\* What a registry write leaves alone (the body of C12).
C12_Step ==
    \A t \in Threads :
        LET T == call[t].tag IN
        /\ (EnableStep(t) \/ DisableStep(t)) =>
              \A U \in Tags \ {T} :
                  is_failpoint_enabled(FAILPOINTS', U) <=>
                      is_failpoint_enabled(FAILPOINTS, U)
        /\ ( /\ Leaves(t, "r_land") /\ call[t].kind = "disable_failpoint"
             /\ T \notin FAILPOINTS ) =>
              /\ FAILPOINTS' = FAILPOINTS
              /\ pc'[t] = "idle" /\ outcome'[t] = "returned"

\* C12: disable(T) of a tag that is not in the registry returns normally
\* and leaves the whole registry as it was; and no enable(T) or disable(T)
\* changes the membership of any tag other than T.
C12_WritesAreLocal == [][C12_Step]_vars

C12_Witness ==
    /\ \A t \in Threads :
          /\ Done(t) /\ call[t].kind = "disable_failpoint"
          /\ call[t].tag = "sleep_test" /\ outcome[t] = "returned"
    /\ landed = [T \in Tags |-> IF T = "fail_test" THEN "enable" ELSE "disable"]
    /\ FAILPOINTS = {"fail_test"}

\* C13: with no registration step, every tag on which no enable has landed
\* yet - in particular every tag in the initial state - is not enabled, and
\* an is_enabled call on it returns false.
C13_InitiallyDisabled ==
    \A T \in Tags :
        landed[T] = "none" =>
            /\ ~is_failpoint_enabled(FAILPOINTS, T)
            /\ \A t \in Threads :
                  ( /\ call[t].kind = "is_failpoint_enabled" /\ call[t].tag = T
                    /\ Done(t) ) =>
                      result[t] = [kind |-> "bool", val |-> "false"]

C13_Witness ==
    \E t \in Threads :
        /\ call[t].kind = "is_failpoint_enabled" /\ Done(t)
        /\ \A T \in Tags : landed[T] = "none"
        /\ result[t] = [kind |-> "bool", val |-> "false"]

Verdicts == {"passed", "assert_failed", "overflow_panic"}

\* Where the harness of thread t stands relative to its code block (part of C14).
C14_State ==
    \A t \in Threads :
        LET T == call[t].tag IN
        (call[t].kind \in HarnessKinds /\ HarnessCompiled(chaos)) =>
            /\ pc[t] = "h_enable" =>
                  saw[t] = "none" /\ ~after[t] /\ result[t] = NoResult
            /\ (pc[t] \in CodePcs \cup {"h_disable"} /\ Untouched(t, T)) =>
                  is_failpoint_enabled(FAILPOINTS, T)
            /\ pc[t] = "h_assert" =>
                  /\ outcome[t] = "running" /\ result[t] # NoResult
                  /\ Untouched(t, T) => ~is_failpoint_enabled(FAILPOINTS, T)
            /\ (Done(t) /\ outcome[t] \in Verdicts /\ Untouched(t, T)) =>
                  ~is_failpoint_enabled(FAILPOINTS, T)

\* The order of the harness's steps (part of C14).
C14_Step ==
    \A t \in Threads :
        LET T == call[t].tag IN
        (call[t].kind \in HarnessKinds /\ HarnessCompiled(chaos)) =>
            /\ Leaves(t, "h_enable") =>
                  pc'[t] = "c_check" /\ is_failpoint_enabled(FAILPOINTS', T)
            /\ (pc[t] \in CodePcs /\ pc'[t] \notin CodePcs) =>
                  pc'[t] \in {"h_disable", "idle"}
            /\ (pc'[t] = "h_assert" /\ pc[t] # "h_assert") =>
                  pc[t] = "h_disable" /\ ~is_failpoint_enabled(FAILPOINTS', T)
            /\ (outcome'[t] \in Verdicts /\ outcome[t] \notin Verdicts) =>
                  pc[t] = "h_assert" /\ FAILPOINTS' = FAILPOINTS

\* C14: in every harness mode enable(T) comes before the first step of the
\* code block, disable(T) after its last step and before the assertion is
\* evaluated; so, with no other thread writing T, T is in the registry at
\* every step of the code block, and a harness that ends in an assertion
\* failure has already disabled T.
C14_ProtocolOrder == []C14_State /\ [][C14_Step]_vars

C14_Witness ==
    \E t \in Threads :
        /\ chaos /\ call[t].kind \in HarnessKinds /\ Done(t)
        /\ outcome[t] = "assert_failed"
        /\ result[t].kind = "Ok" /\ after[t]
        /\ Untouched(t, call[t].tag)
        /\ call[t].tag \notin FAILPOINTS
        /\ landed[call[t].tag] = "disable"

OkResult == [kind |-> "Ok", val |-> "ok"]

\* C15: same-tag interference.  When the failpoint check of a harness's code
\* block finds the harness's own tag disabled - which happens only when
\* another thread's disable of that tag landed after this harness's enable
\* and before the check - no effect is injected (no error, no panic, no
\* delay), and the panic- and error-mode harness ends in its assertion
\* failure (the delay harness is judged on the elapsed time alone).  The
\* witness is the interleaving in which this happens.
C15_SameTagInterference ==
    \A t \in Threads :
        LET c == call[t] IN
        (c.kind \in HarnessKinds /\ c.code.tag = c.tag /\ saw[t] = "disabled") =>
            /\ c.tag \in touched[t]
            /\ delayed[t] = 0
            /\ result[t] \in {NoResult, OkResult}
            /\ Done(t) =>
                  /\ result[t] = OkResult
                  /\ c.mode \in {"panic", "error"} => outcome[t] = "assert_failed"
                  /\ c.mode = "delay" =>
                        \E checks \in BOOLEAN :
                            outcome[t] = Verdict(c, OkResult, elapsed[t], checks)

C15_Witness ==
    /\ \A t \in Threads :
          /\ call[t].kind = "with_failpoint" /\ call[t].tag = "fail_test"
          /\ call[t].code.tag = "fail_test" /\ Done(t)
    /\ call["t1"].mode = "error" /\ call["t2"].mode = "panic"
    /\ saw["t2"] = "enabled" /\ outcome["t2"] = "passed"
    /\ saw["t1"] = "disabled" /\ landed["fail_test"] = "disable"
    /\ result["t1"] = OkResult /\ outcome["t1"] = "assert_failed"

\* The block's result when its failpoint fires.
Fired(code) ==
    LET eff == Primitive(code, TRUE) IN IF eff.kind = "sleep" THEN OkResult ELSE eff

\* C16: harnesses on distinct tags do not interfere.  With one thread on
\* fail_test and the other on sleep_test, in every interleaving each code
\* block finds its own tag enabled at its failpoint check, each harness
\* ends as it does when run alone (the failpoint fired, the verdict is the
\* one of that result and of the elapsed time), and when both harnesses
\* have finished both tags are disabled.
C16_DistinctTagsIsolated ==
    /\ \A t \in Threads :
          LET c == call[t] IN
          c.kind \in HarnessKinds =>
              /\ c.tag = TagOf(t) /\ Untouched(t, c.tag)
              /\ saw[t] \in {"none", "enabled"}
              /\ pc[t] \in CodePcs => is_failpoint_enabled(FAILPOINTS, c.tag)
              /\ pc[t] \in {"c_after", "h_disable", "h_assert", "idle"} =>
                    saw[t] = "enabled"
              /\ Done(t) =>
                    /\ result[t] = Fired(c.code)
                    /\ c.mode = "delay" => delayed[t] >= c.code.millis
                    /\ \E checks \in BOOLEAN :
                          outcome[t] = Verdict(c, Fired(c.code), elapsed[t], checks)
                    /\ c.mode \in {"panic", "error"} => outcome[t] = "passed"
    /\ (\A t \in Threads : Done(t)) => FAILPOINTS = {}

C16_Witness ==
    /\ \A t \in Threads : Done(t) /\ outcome[t] = "passed"
    /\ call["t1"].mode = "error" /\ call["t2"].mode = "delay"
    /\ landed = [T \in Tags |-> "disable"]
    /\ FAILPOINTS = {}

\* C17: the delay window is defined for every pair of literals, also for
\* tolerance_ms > min_ms: the lower bound min_ms - tolerance_ms is computed
\* without underflow or wraparound, so a harness with tolerance_ms > min_ms
\* accepts every elapsed time from 0 to min_ms + tolerance_ms and ends in
\* no failure other than the window assertion.
C17_WindowForAnyTolerance ==
    \A t \in Threads :
        LET c == call[t] IN
        ( /\ c.kind \in HarnessKinds /\ c.mode = "delay" /\ Done(t)
          /\ c.tolerance_ms > c.min_ms /\ result[t] = OkResult ) =>
            /\ outcome[t] \in {"passed", "assert_failed"}
            /\ elapsed[t] <= c.min_ms + c.tolerance_ms => outcome[t] = "passed"

DelayPrims == {"maybe_sleep", "maybe_sleep_async"}

\* The delay taken so far, by what the check saw (part of C18).
C18_State ==
    \A t \in Threads :
        LET code == call[t].code IN
        (code.prim \in DelayPrims /\ PrimitiveCompiled(chaos)) =>
            /\ pc[t] = "c_sleep" =>
                  saw[t] = "enabled" /\ delayed[t] + remaining[t] >= code.millis
            /\ (saw[t] = "enabled" /\ pc[t] \in {"c_after", "idle"}) =>
                  delayed[t] >= code.millis
            /\ saw[t] = "disabled" => delayed[t] = 0 /\ pc[t] # "c_sleep"

\* A delay in progress is neither cancelled nor shortened (part of C18).
C18_Step ==
    \A t \in Threads :
        pc[t] = "c_sleep" =>
            /\ pc'[t] # "c_sleep" =>
                  pc'[t] = "c_after" /\ delayed[t] >= call[t].code.millis
            /\ FAILPOINTS' # FAILPOINTS =>
                  pc'[t] = "c_sleep" /\ remaining'[t] = remaining[t]

\* A delay in progress ends (part of C18).
C18_Live == \A t \in Threads : (pc[t] = "c_sleep") ~> (pc[t] = "c_after")

\* C18: a delay primitive reads the registry once, at its check.  If the
\* tag is enabled at the check of maybe_sleep / maybe_sleep_async, the caller
\* does not continue before ms milliseconds have passed, and does continue
\* eventually, also when another thread disables the tag during the delay;
\* if the tag is enabled only after the check, no delay is taken.
C18_DelaySampledOnce == []C18_State /\ [][C18_Step]_vars /\ C18_Live

C18_Witness ==
    \E t \in Threads :
        /\ call[t].kind = "fn" /\ call[t].code.prim \in DelayPrims
        /\ saw[t] = "enabled" /\ pc[t] = "c_sleep"
        /\ remaining[t] = 0 /\ delayed[t] = call[t].code.millis
        /\ call[t].code.tag \notin FAILPOINTS
        /\ call[t].code.tag \in touched[t]
        /\ landed[call[t].code.tag] = "disable"

\* The failpoint on the harness's tag fired in the code block of thread t.
FiredOn(t) ==
    /\ call[t].code.prim \in InjectionPrims
    /\ call[t].code.tag = call[t].tag
    /\ saw[t] = "enabled"

\* C19: the harness judges the kind of outcome, not its origin: the
\* panic-mode harness passes for every panic of the code block and the
\* error-mode harness for every Err it returns, whatever raised it - also
\* when the block has no failpoint on the harness's tag or that failpoint
\* did not fire.
C19_KindNotOrigin ==
    \A t \in Threads :
        (call[t].kind \in HarnessKinds /\ Done(t) /\ ~FiredOn(t)) =>
            /\ (call[t].mode = "panic" /\ result[t].kind = "Panic") =>
                  outcome[t] = "passed"
            /\ (call[t].mode = "error" /\ result[t].kind = "Err") =>
                  outcome[t] = "passed"

C19_Witness ==
    \E t \in Threads :
        /\ InHarness(t, "panic") /\ Done(t)
        /\ call[t].code.prim = "panic" /\ saw[t] = "none"
        /\ result[t] = [kind |-> "Panic", val |-> "explicit panic"]
        /\ outcome[t] = "passed"

\* C20: in a build without the chaos feature the harness macros, in all
\* three modes and in the async form, do nothing: the registry is not
\* written, the code block is not run, no assertion is evaluated, and the
\* call returns normally.
C20_NoChaosHarnessNoOp ==
    \A t \in Threads :
        (~chaos /\ call[t].kind \in HarnessKinds) =>
            /\ pc[t] = "idle" /\ outcome[t] = "returned"
            /\ result[t] = NoResult /\ saw[t] = "none" /\ ~after[t]
            /\ elapsed[t] = 0 /\ delayed[t] = 0
            /\ Untouched(t, call[t].tag) =>
                  (call[t].tag \in FAILPOINTS <=> call[t].tag \in pre[t])
            /\ touched[t] = {} => FAILPOINTS = pre[t]

C20_Witness ==
    \E t \in Threads :
        /\ ~chaos /\ call[t].kind = "with_failpoint_async" /\ Done(t)
        /\ call[t].code.prim = "maybe_sleep_async"
        /\ touched[t] = {} /\ pre[t] = {call[t].tag} /\ FAILPOINTS = pre[t]
        /\ outcome[t] = "returned"

====
